---------------------------- MODULE Spec2Model ----------------------------
(***************************************************************************)
(* MP3 Batch Slicer: the App component (input boundary, batch loop,        *)
(* archive step, reset) and the audio service (convertBuffer,              *)
(* processAudioFile).                                                      *)
(*                                                                         *)
(* Spec       the App component as a state machine, one action per event   *)
(*            handler or per resumption of the async startProcessing.      *)
(* SpecAudio  processAudioFile, one action per suspension point.           *)
(* SpecConv   convertBuffer applied to bounded sample buffers.             *)
(***************************************************************************)
EXTENDS Integers, Sequences, FiniteSets, TLC

VARIABLES
    step,             \* useState<Step>
    files,            \* useState<ProcessedFile[]>; the records are shared objects
    prefix,           \* useState<string>
    processingIndex,  \* useState<number>
    completedCount,   \* useState<number>
    zipUrl,           \* useState<string | null>
    pc,               \* where the async startProcessing is suspended
    i,                \* loop variable of startProcessing (0-based, as in the code)
    padLength,        \* const padLength of startProcessing
    lamejs,           \* window.lamejs is present
    supplied,         \* the FileList of the last change / drop event
    via,              \* the handler that received it
    inFlight,         \* files handed to processAudioFile and not yet settled
    extractLog,       \* every file handed to processAudioFile, in call order
    zipEntries,       \* the content of the JSZip object built by generateZip
    aPc,              \* where the current processAudioFile call is suspended
    aFile,            \* what decodeAudioData makes of the call's file
    aTarget,          \* targetDurationSec of the call
    aCalls,           \* number of processAudioFile calls made
    ctx,              \* every AudioContext created so far, in creation order
    aCtx,             \* audioCtx of the current call: its position in ctx
    aLocals,          \* startTime, outputDuration, the sample indices, the slices
    encCalls,         \* the calls made on mp3encoder, in order
    aResult,          \* what the call returned or threw
    cBuf,             \* the Float32Array handed to convertBuffer
    cOut,             \* the Int16Array it returned
    cPc               \* whether convertBuffer has run

appVars == <<step, files, prefix, processingIndex, completedCount, zipUrl, pc, i,
             padLength, lamejs, supplied, via, inFlight, extractLog, zipEntries>>

audioVars == <<aPc, aFile, aTarget, aCalls, ctx, aCtx, aLocals, encCalls, aResult>>

convVars == <<cBuf, cOut, cPc>>

vars == <<appVars, audioVars, convVars>>

-----------------------------------------------------------------------------
(* Bounds of the model *)

\* every list of up to MaxSmall files is offered, and long lists of
\* MAX_FILES .. MAX_FILES+MaxOver files
MaxSmall == 3
MaxOver == 1
\* Math.random() returns one of 0/RandDen .. (RandDen-1)/RandDen
RandDen == 4
\* decoded buffers are up to MaxBlocks encoder blocks long, and a little more
MaxBlocks == 2
\* processAudioFile is called up to MaxCalls times in a row
MaxCalls == 2
\* samples are multiples of 1/(2*HalfSteps) in [-2, 2]
HalfSteps == 2
\* convertBuffer gets buffers of up to MaxBufLen samples
MaxBufLen == 2

(* Program constants *)
MAX_FILES == 100
BLOCK == 1152
DEFAULT_TARGET == 15

NoValue == "undefined"
Null == "null"
\* a record without blob
NoBlob == <<>>

-----------------------------------------------------------------------------
(* Files offered by the user.  type is File.type, ext the last four
   characters of File.name, decodable whether decodeAudioData accepts the
   bytes. *)
FileKinds ==
    { [type |-> "audio/mpeg", ext |-> ".mp3", decodable |-> FALSE],
      [type |-> "",           ext |-> ".mp3", decodable |-> TRUE],
      [type |-> "audio/mpeg", ext |-> "mpga", decodable |-> TRUE],
      [type |-> "audio/wav",  ext |-> ".wav", decodable |-> TRUE] }

\* the file of kind k at position j of a FileList
FileAt(k, j) == [idx |-> j, type |-> k.type, ext |-> k.ext, decodable |-> k.decodable]

ShortLists ==
    UNION { { [j \in 1..n |-> FileAt(s[j], j)] : s \in [1..n -> FileKinds] } :
               n \in 0..MaxSmall }

LongSizes == MAX_FILES..(MAX_FILES + MaxOver)

\* n files of kind a, but for the first or the last, which is of kind b
LongList(a, b, odd, n) ==
    [j \in 1..n |-> FileAt(IF j = (IF odd = "first" THEN 1 ELSE n) THEN b ELSE a, j)]

LongLists ==
    { LongList(a, b, odd, n) :
         a \in FileKinds, b \in FileKinds, odd \in {"first", "last"}, n \in LongSizes }

FileLists == ShortLists \cup LongLists

-----------------------------------------------------------------------------
(* Array helpers *)

\* slice(0, n + 1): the cap off by one
SliceOneMore(s, n) == IF Len(s) <= n + 1 THEN s ELSE SubSeq(s, 1, n + 1)

\* Array.prototype.slice(0, n)
Slice(s, n) == IF Len(s) <= n THEN s ELSE SubSeq(s, 1, n)

\* f.type === 'audio/mpeg' || f.name.endsWith('.mp3')
IsMpeg(f) == f.type = "audio/mpeg" \/ f.ext = ".mp3"

Filter(s) == SelectSeq(s, IsMpeg)

NewRecord(f, index) ==
    [id |-> index,
     originalName |-> <<f.idx, f.ext>>,
     newName |-> "",
     status |-> "pending",
     fileObject |-> f,
     blob |-> NoBlob,
     errorMsg |-> NoValue]

NewRecords(s) == [k \in 1..Len(s) |-> NewRecord(s[k], k - 1)]

-----------------------------------------------------------------------------
(* Number formatting *)

DigitChar(d) ==
    CASE d = 0 -> "0" [] d = 1 -> "1" [] d = 2 -> "2" [] d = 3 -> "3"
      [] d = 4 -> "4" [] d = 5 -> "5" [] d = 6 -> "6" [] d = 7 -> "7"
      [] d = 8 -> "8" [] d = 9 -> "9"

RECURSIVE NumToString(_)
NumToString(n) ==
    IF n < 10 THEN DigitChar(n) ELSE NumToString(n \div 10) \o DigitChar(n % 10)

RECURSIVE PadStart(_, _, _)
PadStart(s, width, ch) ==
    IF Len(s) >= width THEN s ELSE PadStart(ch \o s, width, ch)

\* files.length > 100 ? 3 : 2: the threshold off by one
PadLengthAbove(n) == IF n > 100 THEN 3 ELSE 2

PadLength(n) == IF n >= 100 THEN 3 ELSE (IF n >= 10 THEN 2 ELSE 2)

NewName(pre, idx, pad) == pre \o "-" \o PadStart(NumToString(idx + 1), pad, "0") \o ".mp3"

-----------------------------------------------------------------------------
(* Prefix input *)

AllowedChars ==
    { "a","b","c","d","e","f","g","h","i","j","k","l","m","n","o","p","q","r","s",
      "t","u","v","w","x","y","z","A","B","C","D","E","F","G","H","I","J","K","L",
      "M","N","O","P","Q","R","S","T","U","V","W","X","Y","Z","0","1","2","3","4",
      "5","6","7","8","9","-","_" }

IsAllowed(c) == c \in AllowedChars

RECURSIVE Join(_)
Join(cs) == IF cs = <<>> THEN "" ELSE Head(cs) \o Join(Tail(cs))

\* e.target.value.replace(/[^a-zA-Z0-9-_]/g, '')
Sanitize(cs) == Join(SelectSeq(cs, IsAllowed))

TypedPrefixes == { <<"m", "/", "x", "_", "1">> }

-----------------------------------------------------------------------------
(* The outcome of processAudioFile(file) as startProcessing sees it *)

ExtractError(f) ==
    IF ~f.decodable THEN "DecodeError"
    ELSE IF ~lamejs THEN "EncoderUnavailable"
    ELSE "none"

\* a catch that handles the decode failure only
CaughtDecodeOnly(err) == err = "DecodeError"

\* catch (error) { ... }: every error is caught
Caught(err) == TRUE

-----------------------------------------------------------------------------
AppInit ==
    /\ step = "UPLOAD"
    /\ files = <<>>
    /\ prefix = "abc"
    /\ processingIndex = -1
    /\ completedCount = 0
    /\ zipUrl = Null
    /\ pc = "idle"
    /\ i = 0
    /\ padLength = 0
    /\ lamejs \in BOOLEAN
    /\ supplied = <<>>
    /\ via = "none"
    /\ inFlight = {}
    /\ extractLog = <<>>
    /\ zipEntries = {}

handlerLocals == <<pc, i, padLength, inFlight, extractLog, zipEntries>>

HandleFileSelect ==
    /\ UNCHANGED <<audioVars, convVars>>
    /\ step = "UPLOAD"
    /\ \E list \in FileLists :
          /\ supplied' = list
          /\ via' = "select"
          /\ IF Len(list) > 0
             THEN /\ files' = NewRecords(Slice(list, MAX_FILES))
                  /\ step' = "CONFIG"
             ELSE UNCHANGED <<files, step>>
    /\ UNCHANGED <<prefix, processingIndex, completedCount, zipUrl, lamejs>>
    /\ UNCHANGED handlerLocals

HandleDrop ==
    /\ UNCHANGED <<audioVars, convVars>>
    /\ step = "UPLOAD"
    /\ \E list \in FileLists :
          /\ supplied' = list
          /\ via' = "drop"
          /\ IF Len(list) > 0 /\ Len(Slice(Filter(list), MAX_FILES)) > 0
             THEN /\ files' = NewRecords(Slice(Filter(list), MAX_FILES))
                  /\ step' = "CONFIG"
             ELSE UNCHANGED <<files, step>>
    /\ UNCHANGED <<prefix, processingIndex, completedCount, zipUrl, lamejs>>
    /\ UNCHANGED handlerLocals

SetPrefix ==
    /\ UNCHANGED <<audioVars, convVars>>
    /\ step = "CONFIG"
    /\ \E typed \in TypedPrefixes : prefix' = Sanitize(typed)
    /\ UNCHANGED <<step, files, processingIndex, completedCount, zipUrl, lamejs,
                   supplied, via>>
    /\ UNCHANGED handlerLocals

\* the first part of a loop iteration, up to the await of processAudioFile
BeginIteration(recs, k, pad) ==
    [recs EXCEPT ![k + 1].newName = NewName(prefix, k, pad)]

StartProcessing ==
    /\ UNCHANGED <<audioVars, convVars>>
    /\ step = "CONFIG"
    /\ pc = "idle"
    /\ Len(files) # 0
    /\ step' = "PROCESSING"
    /\ completedCount' = 0
    /\ padLength' = PadLength(Len(files))
    /\ i' = 0
    /\ processingIndex' = 0
    /\ files' = BeginIteration(files, 0, PadLength(Len(files)))
    /\ inFlight' = inFlight \cup {files[1].fileObject.idx}
    /\ extractLog' = Append(extractLog, files[1].fileObject.idx)
    /\ pc' = "extract"
    /\ UNCHANGED <<prefix, zipUrl, lamejs, supplied, via, zipEntries>>

\* processAudioFile resolved
ExtractResolved ==
    /\ UNCHANGED <<audioVars, convVars>>
    /\ pc = "extract"
    /\ ExtractError(files[i + 1].fileObject) = "none"
    /\ files' = [files EXCEPT ![i + 1].blob = <<"mp3", files[i + 1].fileObject.idx>>,
                              ![i + 1].status = "completed"]
    /\ inFlight' = inFlight \ {files[i + 1].fileObject.idx}
    /\ completedCount' = completedCount + 1
    /\ pc' = "pause"
    /\ UNCHANGED <<step, prefix, processingIndex, zipUrl, i, padLength, lamejs,
                   supplied, via, extractLog, zipEntries>>

\* processAudioFile rejected
ExtractRejected ==
    /\ UNCHANGED <<audioVars, convVars>>
    /\ pc = "extract"
    /\ ExtractError(files[i + 1].fileObject) # "none"
    /\ inFlight' = inFlight \ {files[i + 1].fileObject.idx}
    /\ IF Caught(ExtractError(files[i + 1].fileObject))
       THEN /\ files' = [files EXCEPT ![i + 1].status = "error",
                                      ![i + 1].errorMsg = "Failed to process"]
            /\ completedCount' = completedCount + 1
            /\ pc' = "pause"
       ELSE /\ pc' = "crashed"
            /\ UNCHANGED <<files, completedCount>>
    /\ UNCHANGED <<step, prefix, processingIndex, zipUrl, i, padLength, lamejs,
                   supplied, via, extractLog, zipEntries>>

\* a loop that skips a file
NextIndexSkip(k) == k + 2

\* the index of the next loop iteration (i++)
NextIndex(k) == k + 1

\* the setTimeout of 50 ms fired and another file is left
PauseElapsedNext ==
    /\ UNCHANGED <<audioVars, convVars>>
    /\ pc = "pause"
    /\ NextIndex(i) < Len(files)
    /\ i' = NextIndex(i)
    /\ processingIndex' = NextIndex(i)
    /\ files' = BeginIteration(files, NextIndex(i), padLength)
    /\ inFlight' = inFlight \cup {files[NextIndex(i) + 1].fileObject.idx}
    /\ extractLog' = Append(extractLog, files[NextIndex(i) + 1].fileObject.idx)
    /\ pc' = "extract"
    /\ UNCHANGED <<step, prefix, completedCount, zipUrl, padLength, lamejs,
                   supplied, via, zipEntries>>

\* zip.file(name, data): an entry of the same name is replaced
ZipFile(zip, name, data) ==
    { e \in zip : e.name # name } \cup { [name |-> name, content |-> data] }

\* every processed record is archived, failed ones too
InZipProcessed(f) == f.status # "pending"

InZip(f) == f.status = "completed" /\ f.blob # NoBlob

\* the archive after processedFiles.forEach applied ZipFile, in array order,
\* to each record that passes InZip: of the records of one name the last one
\* stays, and an entry of zip stays unless a record has its name
ZipOf(recs, zip) ==
    LET added == { k \in 1..Len(recs) : InZip(recs[k]) }
        stays == { k \in added :
                     \A j \in added : j > k => recs[j].newName # recs[k].newName }
    IN  { e \in zip : \A k \in added : recs[k].newName # e.name }
        \cup UNION { ZipFile({}, recs[k].newName, recs[k].blob) : k \in stays }

\* count++ outside the test: every record counts
ZipCountAll(recs) == Len(recs)

ZipCount(recs) == Len(SelectSeq(recs, InZip))

\* the setTimeout fired after the last file: generateZip up to its await
PauseElapsedLast ==
    /\ UNCHANGED <<audioVars, convVars>>
    /\ pc = "pause"
    /\ ~(NextIndex(i) < Len(files))
    /\ i' = NextIndex(i)
    /\ processingIndex' = -1
    /\ zipEntries' = ZipOf(files, {})
    /\ IF ZipCount(files) > 0
       THEN /\ pc' = "zip"
            /\ UNCHANGED step
       ELSE /\ pc' = "idle"
            /\ step' = "FINISHED"
    /\ UNCHANGED <<files, prefix, completedCount, zipUrl, padLength, lamejs,
                   supplied, via, inFlight, extractLog>>

\* zip.generateAsync resolved
ZipGenerated ==
    /\ UNCHANGED <<audioVars, convVars>>
    /\ pc = "zip"
    /\ zipUrl' = "blob:zip"
    /\ step' = "FINISHED"
    /\ pc' = "idle"
    /\ UNCHANGED <<files, prefix, processingIndex, completedCount, i, padLength,
                   lamejs, supplied, via, inFlight, extractLog, zipEntries>>

ResetApp ==
    /\ UNCHANGED <<audioVars, convVars>>
    /\ step \in {"CONFIG", "FINISHED"}
    /\ files' = <<>>
    /\ step' = "UPLOAD"
    /\ zipUrl' = Null
    /\ prefix' = "abc"
    /\ completedCount' = 0
    /\ supplied' = <<>>
    /\ via' = "none"
    /\ i' = 0
    /\ padLength' = 0
    /\ extractLog' = <<>>
    /\ zipEntries' = {}
    /\ UNCHANGED <<processingIndex, pc, lamejs, inFlight>>

\* what renderProcessingStep shows in the header
Summary ==
    IF step = "FINISHED"
    THEN (IF zipUrl # Null THEN "Download ZIP" ELSE "No files generated.")
    ELSE "spinner"

-----------------------------------------------------------------------------
(* convertBuffer.  A sample is the rational k / SampleDen. *)

SampleDen == 2 * HalfSteps

Samples == (-2 * SampleDen)..(2 * SampleDen)

\* truncation toward zero of n / d (d > 0): what storing a number in a typed
\* integer array does before it wraps
Trunc(n, d) == IF n >= 0 THEN n \div d ELSE -((-n) \div d)

\* the Int16Array store: modulo 2^16 into [-32768, 32767]
ToInt16(v) == ((v + 32768) % 65536) - 32768

\* no clamp at all
ClampNone(k) == k

\* if (sample > 1) sample = 1; else if (sample < -1) sample = -1;
Clamp(k) == IF k > SampleDen THEN SampleDen ELSE IF k < -SampleDen THEN -SampleDen ELSE k

\* sample < 0 ? sample * 0x8000 : sample * 0x7FFF, as a numerator over SampleDen
Scale(k) == IF k < 0 THEN k * 32768 ELSE k * 32767

ConvertSample(k) == ToInt16(Trunc(Scale(Clamp(k)), SampleDen))

ConvertBuffer(buffer) == [j \in 1..Len(buffer) |-> ConvertSample(buffer[j])]

Buffers == UNION { [1..n -> Samples] : n \in 0..MaxBufLen }

ConvIdle ==
    /\ cBuf = <<>>
    /\ cOut = <<>>
    /\ cPc = "idle"

ConvInit ==
    /\ cBuf \in Buffers
    /\ cOut = <<>>
    /\ cPc = "ready"

Convert ==
    /\ cPc = "ready"
    /\ cOut' = ConvertBuffer(cBuf)
    /\ cPc' = "done"
    /\ UNCHANGED <<cBuf, appVars, audioVars>>

-----------------------------------------------------------------------------
(* processAudioFile.  Times are rationals <<n, d>> with d > 0, in seconds. *)

RLess(a, b) == a[1] * b[2] < b[1] * a[2]
RSub(a, b) == <<a[1] * b[2] - b[1] * a[2], a[2] * b[2]>>
RAdd(a, b) == <<a[1] * b[2] + b[1] * a[2], a[2] * b[2]>>
RMul(a, b) == <<a[1] * b[1], a[2] * b[2]>>
RMin(a, b) == IF RLess(b, a) THEN b ELSE a
RFloor(a) == a[1] \div a[2]

\* sample rates, scaled down so that a block of 1152 samples is seconds long
SampleRates == {8, 200}

Targets == {2, DEFAULT_TARGET}

LengthMarks == { t * sr : t \in Targets, sr \in SampleRates }
                  \cup { b * BLOCK : b \in 1..MaxBlocks }

Lengths == {0, 1, (MaxBlocks + 1) * BLOCK + 7}
              \cup { m + e : m \in LengthMarks, e \in {-1, 0, 1} }

\* what decodeAudioData resolves with (an AudioBuffer), or that it rejects
AudioInputs ==
    { [decodable |-> TRUE, length |-> n, sampleRate |-> sr, numberOfChannels |-> ch] :
         n \in Lengths, sr \in SampleRates, ch \in {1, 2} }
    \cup { [decodable |-> FALSE, length |-> 0, sampleRate |-> 8, numberOfChannels |-> 1] }

\* AudioBuffer.duration
Duration(f) == <<f.length, f.sampleRate>>

\* the random start is drawn over the whole file
MaxStartWholeFile(fileDuration, target) == fileDuration

\* const maxStart = fileDuration - targetDurationSec
MaxStart(fileDuration, target) == RSub(fileDuration, target)

StartTime(fileDuration, target, random) ==
    IF RLess(target, fileDuration)
    THEN RMul(random, MaxStart(fileDuration, target))
    ELSE <<0, 1>>

OutputDuration(fileDuration, target) == RMin(fileDuration, target)

\* the length of typedArray.slice(b, e) and of typedArray.subarray(b, e), for
\* an array of n elements and b, e >= 0
SubLen(n, b, e) ==
    LET bb == IF b > n THEN n ELSE b
        ee == IF e > n THEN n ELSE e
    IN  IF ee > bb THEN ee - bb ELSE 0

NoChannel == -1

\* the locals of processAudioFile after step 4; a slice is known by its length
Locals(f, target, random) ==
    LET startTime == StartTime(Duration(f), target, random)
        outputDuration == OutputDuration(Duration(f), target)
        startSample == RFloor(RMul(startTime, <<f.sampleRate, 1>>))
        endSample == RFloor(RMul(RAdd(startTime, outputDuration), <<f.sampleRate, 1>>))
    IN  [startTime |-> startTime,
         outputDuration |-> outputDuration,
         startSample |-> startSample,
         endSample |-> endSample,
         lengthSamples |-> endSample - startSample,
         leftLen |-> SubLen(f.length, startSample, endSample),
         rightLen |-> IF f.numberOfChannels > 1
                      THEN SubLen(f.length, startSample, endSample)
                      ELSE NoChannel]

NoLocals ==
    [startTime |-> <<0, 1>>, outputDuration |-> <<0, 1>>, startSample |-> 0,
     endSample |-> 0, lengthSamples |-> 0, leftLen |-> 0, rightLen |-> NoChannel]

\* i <= lengthSamples
LoopContinuesInclusive(k, lengthSamples) == k <= lengthSamples

\* the loop condition i < lengthSamples
LoopContinues(k, lengthSamples) == k < lengthSamples

\* the encodeBuffer calls of the loop, from i = k on
RECURSIVE EncodeLoop(_, _, _)
EncodeLoop(k, loc, numChannels) ==
    IF LoopContinues(k, loc.lengthSamples)
    THEN <<[op |-> "encodeBuffer",
            from |-> k,
            left |-> SubLen(loc.leftLen, k, k + BLOCK),
            right |-> IF numChannels = 2 /\ loc.rightLen # NoChannel
                      THEN SubLen(loc.rightLen, k, k + BLOCK)
                      ELSE NoChannel]>>
         \o EncodeLoop(k + BLOCK, loc, numChannels)
    ELSE <<>>

Flush == [op |-> "flush", from |-> 0, left |-> NoChannel, right |-> NoChannel]

\* every call on the encoder; empty is the set of calls that returned no bytes
EncoderCalls(loc, numChannels, empty) ==
    LET calls == EncodeLoop(0, loc, numChannels) \o <<Flush>>
    IN  [j \in 1..Len(calls) |->
            [op |-> calls[j].op, from |-> calls[j].from, left |-> calls[j].left,
             right |-> calls[j].right, bytes |-> j \notin empty]]

\* mp3Data: the calls whose output was pushed, by their position in calls
RECURSIVE Mp3Data(_, _)
Mp3Data(calls, j) ==
    IF j > Len(calls) THEN <<>>
    ELSE (IF calls[j].bytes THEN <<j>> ELSE <<>>) \o Mp3Data(calls, j + 1)

NoResult == [kind |-> "none", blob |-> <<>>, startTime |-> <<0, 1>>, duration |-> <<0, 1>>]

Raised(err) == [kind |-> err, blob |-> <<>>, startTime |-> <<0, 1>>, duration |-> <<0, 1>>]

\* the state of an AudioContext: closed as soon as close() is called; the
\* promise close() returned settles later
NewContext == [state |-> "running", closePromise |-> "none"]

CloseContext(c) == [state |-> "closed", closePromise |-> "pending"]

\* the catch block forgets the context
OnDecodeFailureLeak(c) == c

\* catch (e) { audioCtx.close(); throw ... }
OnDecodeFailure(c) == CloseContext(c)

AudioIdle ==
    /\ aPc = "idle"
    /\ aFile = [decodable |-> FALSE, length |-> 0, sampleRate |-> 8, numberOfChannels |-> 1]
    /\ aTarget = DEFAULT_TARGET
    /\ aCalls = 0
    /\ ctx = <<>>
    /\ aCtx = 0
    /\ aLocals = NoLocals
    /\ encCalls = <<>>
    /\ aResult = NoResult

\* processAudioFile(file, target) up to the await of decodeAudioData
Call ==
    /\ aPc \in {"idle", "returned", "raised"}
    /\ aCalls < MaxCalls
    /\ \E f \in AudioInputs, t \in Targets :
          /\ aFile' = f
          /\ aTarget' = t
    /\ aCalls' = aCalls + 1
    /\ ctx' = Append(ctx, NewContext)
    /\ aCtx' = Len(ctx) + 1
    /\ aLocals' = NoLocals
    /\ encCalls' = <<>>
    /\ aResult' = NoResult
    /\ aPc' = "decoding"
    /\ UNCHANGED <<appVars, convVars>>

\* decodeAudioData rejected
DecodeRejected ==
    /\ aPc = "decoding"
    /\ ~aFile.decodable
    /\ ctx' = [ctx EXCEPT ![aCtx] = OnDecodeFailure(ctx[aCtx])]
    /\ aResult' = Raised("DecodeError")
    /\ aPc' = "raised"
    /\ UNCHANGED <<aFile, aTarget, aCalls, aCtx, aLocals, encCalls, appVars, convVars>>

\* decodeAudioData resolved: steps 3 and 4, up to await audioCtx.close()
DecodeResolved ==
    /\ aPc = "decoding"
    /\ aFile.decodable
    /\ \E r \in 0..(RandDen - 1) :
          aLocals' = Locals(aFile, <<aTarget, 1>>, <<r, RandDen>>)
    /\ ctx' = [ctx EXCEPT ![aCtx] = CloseContext(ctx[aCtx])]
    /\ aPc' = "closing"
    /\ UNCHANGED <<aFile, aTarget, aCalls, aCtx, encCalls, aResult, appVars, convVars>>

\* the promise of a close() settles
CloseSettled ==
    /\ \E c \in 1..Len(ctx) :
          /\ ctx[c].closePromise = "pending"
          /\ ctx' = [ctx EXCEPT ![c].closePromise = "resolved"]
    /\ UNCHANGED <<aPc, aFile, aTarget, aCalls, aCtx, aLocals, encCalls, aResult,
                   appVars, convVars>>

\* after await audioCtx.close(): window.lamejs is missing
EncoderMissing ==
    /\ aPc = "closing"
    /\ ctx[aCtx].closePromise = "resolved"
    /\ ~lamejs
    /\ aResult' = Raised("EncoderUnavailable")
    /\ aPc' = "raised"
    /\ UNCHANGED <<aFile, aTarget, aCalls, ctx, aCtx, aLocals, encCalls, appVars, convVars>>

\* after await audioCtx.close(): step 5, to the return
Encode ==
    /\ aPc = "closing"
    /\ ctx[aCtx].closePromise = "resolved"
    /\ lamejs
    /\ \E empty \in SUBSET (1..(Len(EncodeLoop(0, aLocals, aFile.numberOfChannels)) + 1)) :
          /\ encCalls' = EncoderCalls(aLocals, aFile.numberOfChannels, empty)
          /\ aResult' = [kind |-> "ok",
                         blob |-> Mp3Data(EncoderCalls(aLocals, aFile.numberOfChannels, empty), 1),
                         startTime |-> aLocals.startTime,
                         duration |-> aLocals.outputDuration]
    /\ aPc' = "returned"
    /\ UNCHANGED <<aFile, aTarget, aCalls, ctx, aCtx, aLocals, appVars, convVars>>

-----------------------------------------------------------------------------
(* Properties of the App component *)

Terminal(k) == files[k].status \in {"completed", "error"}

TerminalSet == { k \in 1..Len(files) : Terminal(k) }

LoopEnded == pc = "zip" \/ step = "FINISHED"

CompletedSet == { k \in 1..Len(files) : files[k].status = "completed" }

\* k written in decimal, zero-padded to width w (w is 2 or 3, k < 1000)
ZeroPadded(k, w) ==
    IF w = 3
    THEN (IF k < 10 THEN "00" \o ToString(k)
          ELSE IF k < 100 THEN "0" \o ToString(k) ELSE ToString(k))
    ELSE (IF k < 10 THEN "0" \o ToString(k) ELSE ToString(k))

BatchWidth == IF Len(files) < 100 THEN 2 ELSE 3

\* "-<k zero-padded to width w>.mp3" for every position and both widths
NameTail == [w \in {2, 3} |-> [k \in 1..100 |-> "-" \o ZeroPadded(k, w) \o ".mp3"]]

\* C1: a batch has 1..100 records; every processed record k (completed or
\* error) is named <prefix>-<k zero-padded>.mp3 with the batch's pad width (2
\* below 100 records, 3 at 100), and the names of processed records are
\* pairwise distinct.
C1_SequentialNames ==
    /\ step # "UPLOAD" => Len(files) \in 1..100
    /\ \A k \in 1..Len(files) :
          Terminal(k) =>
             files[k].newName = prefix \o NameTail[BatchWidth][k]
    /\ Cardinality({ files[k].newName : k \in TerminalSet }) = Cardinality(TerminalSet)

C1_Witness ==
    /\ step = "FINISHED"
    /\ Len(files) = 100
    /\ \E k \in 1..99 : files[k].status = "error" /\ files[k + 1].status = "completed"
    /\ files[100].newName = prefix \o "-100.mp3"
    /\ files[1].newName = prefix \o "-001.mp3"

\* C3: no exception escapes the batch loop; a record whose extraction fails
\* (undecodable input, or encoder backend missing) gets status error with the
\* message "Failed to process", every other record is completed, and when the
\* loop has ended no record is pending.
C3_FailuresBecomeStatus ==
    /\ pc # "crashed"
    /\ \A k \in 1..Len(files) :
          /\ files[k].status = "error" => files[k].errorMsg = "Failed to process"
          /\ files[k].status \in {"pending", "completed", "error"}
    /\ LoopEnded =>
          \A k \in 1..Len(files) :
             IF ~files[k].fileObject.decodable \/ ~lamejs
             THEN files[k].status = "error"
             ELSE files[k].status = "completed"

C3_Witness ==
    /\ step = "FINISHED"
    /\ Len(files) >= 3
    /\ \E k \in 1..(Len(files) - 1) :
          /\ files[k].status = "error"
          /\ files[k].errorMsg = "Failed to process"
          /\ files[k + 1].status = "completed"

\* C4: once the loop has ended the archive holds exactly one entry per
\* completed record (name = newName, content = its blob) and none for an error
\* record; at FINISHED a download is exposed iff some record completed, and
\* when none did no archive is made and "No files generated." is shown.
C4_ArchiveIsCompletedRecords ==
    /\ LoopEnded =>
          /\ zipEntries = { [name |-> files[k].newName, content |-> files[k].blob] :
                               k \in CompletedSet }
          /\ Cardinality(zipEntries) = Cardinality(CompletedSet)
          /\ \A k \in CompletedSet : files[k].blob = <<"mp3", files[k].fileObject.idx>>
    /\ step # "FINISHED" => zipUrl = Null
    /\ step = "FINISHED" =>
          /\ zipUrl # Null <=> CompletedSet # {}
          /\ Summary = "Download ZIP" <=> CompletedSet # {}
          /\ CompletedSet = {} => (zipEntries = {} /\ Summary = "No files generated.")

C4_Witness ==
    /\ step = "FINISHED"
    /\ zipUrl # Null
    /\ Cardinality(zipEntries) >= 2
    /\ \E k \in 1..Len(files) : files[k].status = "error"

\* the batch where every input failed
C4_WitnessAllFailed ==
    /\ step = "FINISHED"
    /\ Len(files) >= 2
    /\ CompletedSet = {}
    /\ Summary = "No files generated."

\* C5: every record comes from a file of content type audio/mpeg or of a
\* name ending in .mp3.
C5_RecordsAreMpeg ==
    \A k \in 1..Len(files) :
       files[k].fileObject.type = "audio/mpeg" \/ files[k].fileObject.ext = ".mp3"

\* the same, of the records made by handleDrop alone
C5_DroppedRecordsAreMpeg == via = "drop" => C5_RecordsAreMpeg

\* a file the handler lets through: handleDrop filters, handleFileSelect does not
Accepted(f) ==
    via = "select" \/ f.type = "audio/mpeg" \/ f.ext = ".mp3"

AcceptedUpTo(j) == { m \in 1..j : Accepted(supplied[m]) }

Min(a, b) == IF a <= b THEN a ELSE b

\* C6: a batch holds at most 100 records; the records are the first 100
\* accepted files of the supplied list, in their order (each record is an
\* accepted file of the list, the positions increase, and no accepted file
\* before the last record's is left out), and only the records' files are
\* passed to processAudioFile.
C6_CapAtHundred ==
    /\ Len(files) <= 100
    /\ step # "UPLOAD" =>
          /\ Len(files) = Min(100, Cardinality(AcceptedUpTo(Len(supplied))))
          /\ \A k \in 1..Len(files) :
                /\ files[k].fileObject.idx \in 1..Len(supplied)
                /\ supplied[files[k].fileObject.idx] = files[k].fileObject
                /\ Accepted(files[k].fileObject)
                /\ k > 1 => files[k - 1].fileObject.idx < files[k].fileObject.idx
          /\ Len(files) = Cardinality(AcceptedUpTo(files[Len(files)].fileObject.idx))
    /\ Len(extractLog) <= Min(100, Len(files))
    /\ \A k \in 1..Len(extractLog) :
          /\ extractLog[k] <= files[Len(files)].fileObject.idx
          /\ Accepted(supplied[extractLog[k]])

\* 101 accepted files were dropped and the 101st is in no record
C6_Witness ==
    /\ via = "drop"
    /\ Len(supplied) = 101
    /\ Cardinality(AcceptedUpTo(Len(supplied))) = 101
    /\ Len(files) = 100
    /\ step = "FINISHED"
    /\ Len(extractLog) = 100
    /\ files[100].fileObject.idx = 100

\* the first dropped file is filtered out and the records are files 2 .. 101
C6_WitnessFiltered ==
    /\ via = "drop"
    /\ Len(supplied) = 101
    /\ Len(files) = 100
    /\ files[1].fileObject.idx = 2
    /\ files[100].fileObject.idx = 101

\* C8: at most one extraction is in flight; the files are extracted in the
\* records' order, each once; and the extraction of a record begins only from
\* the elapsed pause that follows the previous record's terminal status and
\* progress update.
C8_State ==
    /\ Cardinality(inFlight) <= 1
    /\ Len(extractLog) <= Len(files)
    /\ \A k \in 1..Len(extractLog) : extractLog[k] = files[k].fileObject.idx
    /\ pc = "extract" <=> inFlight # {}
    /\ LoopEnded => Len(extractLog) = Len(files)

C8_Step ==
    (Len(extractLog') = Len(extractLog) + 1 /\ Len(extractLog) >= 1) =>
        /\ pc = "pause"
        /\ inFlight = {}
        /\ Terminal(Len(extractLog))
        /\ completedCount = Len(extractLog)

C8_OneAtATime == []C8_State /\ [][C8_Step]_vars

C8_Witness ==
    /\ pc = "extract"
    /\ Len(extractLog) = 3
    /\ files[1].status = "error"
    /\ files[2].status = "completed"
    /\ completedCount = 2

\* C11: a batch that has started reaches FINISHED; startProcessing never
\* stops on an error, and FINISHED shows either the download (some record
\* completed, zipUrl set) or "No files generated." (none completed, no
\* zipUrl).
C11_Ends ==
    /\ pc # "crashed"
    /\ step = "FINISHED" =>
          /\ pc = "idle"
          /\ completedCount = Len(files)
          /\ IF CompletedSet # {}
             THEN zipUrl # Null /\ Summary = "Download ZIP"
             ELSE zipUrl = Null /\ Summary = "No files generated."

C11_WitnessNothing ==
    /\ step = "FINISHED"
    /\ Len(files) = 100
    /\ zipUrl = Null
    /\ Summary = "No files generated."

-----------------------------------------------------------------------------
(* Properties of the audio service *)

Max(a, b) == IF a >= b THEN a ELSE b

\* the target of the call in samples of the call's file
TargetSamples == aTarget * aFile.sampleRate

\* C2: a successful processAudioFile on a file of duration d with target t
\* returns duration = min(d, t) and 0 <= startTime <= max(0, d - t), and
\* startTime = 0 when d <= t.  (d = length / sampleRate; both sides are
\* multiplied out.)
C2_WindowInsideFile ==
    aResult.kind = "ok" =>
        /\ aResult.duration[2] > 0 /\ aResult.startTime[2] > 0
        /\ aResult.duration[1] * aFile.sampleRate
              = aResult.duration[2] * Min(aFile.length, TargetSamples)
        /\ aResult.startTime[1] >= 0
        /\ aResult.startTime[1] * aFile.sampleRate
              <= aResult.startTime[2] * Max(0, aFile.length - TargetSamples)
        /\ aFile.length <= TargetSamples => aResult.startTime[1] = 0

C2_Witness ==
    /\ aResult.kind = "ok"
    /\ aFile.length > TargetSamples
    /\ aResult.startTime[1] > 0
    /\ aTarget = DEFAULT_TARGET

\* a short file is taken in full
C2_WitnessShort ==
    /\ aResult.kind = "ok"
    /\ aFile.length > 1
    /\ aFile.length < TargetSamples
    /\ aLocals.leftLen = aFile.length

\* C9: the context of a call is closed when the call returns or raises, and
\* already while the call waits before the encoder check; every call has a
\* context of its own, and the contexts of earlier calls stay closed.
C9_ContextClosed ==
    /\ Len(ctx) = aCalls
    /\ aCtx = aCalls
    /\ aPc \in {"returned", "raised", "closing"} => ctx[aCtx].state = "closed"
    /\ aPc = "decoding" => ctx[aCtx] = NewContext
    /\ \A c \in 1..(aCtx - 1) : ctx[c].state = "closed"

C9_Witness ==
    /\ aCalls = 2
    /\ aPc = "raised"
    /\ aResult.kind = "DecodeError"
    /\ ctx[1].state = "closed"
    /\ ctx[2] = [state |-> "closed", closePromise |-> "pending"]

\* a missing encoder leaves no open context either
C9_WitnessEncoderMissing ==
    /\ aPc = "raised"
    /\ aResult.kind = "EncoderUnavailable"
    /\ ctx[aCtx] = [state |-> "closed", closePromise |-> "resolved"]

\* C10: for a slice of L samples the encoder gets ceil(L / 1152) encodeBuffer
\* calls on consecutive blocks of 1152 samples (the last may be shorter) that
\* cover [0, L), left only for mono and left and right of equal length for
\* stereo, then one flush; the blob is the calls that returned bytes, in call
\* order; with L = 0 there is the flush alone, and the call succeeds.
C10_BlocksThenFlush ==
    /\ aPc = "returned" =>
          /\ aResult.kind = "ok"
          /\ Len(encCalls) = ((aLocals.leftLen + 1151) \div 1152) + 1
          /\ encCalls[Len(encCalls)].op = "flush"
          /\ \A j \in 1..(Len(encCalls) - 1) :
                /\ encCalls[j].op = "encodeBuffer"
                /\ encCalls[j].from = (j - 1) * 1152
                /\ encCalls[j].left = Min(1152, aLocals.leftLen - encCalls[j].from)
                /\ encCalls[j].left >= 1
                /\ j < Len(encCalls) - 1 => encCalls[j].left = 1152
                /\ j = Len(encCalls) - 1 =>
                      encCalls[j].from + encCalls[j].left = aLocals.leftLen
                /\ aFile.numberOfChannels = 1 => encCalls[j].right = NoChannel
                /\ aFile.numberOfChannels = 2 => encCalls[j].right = encCalls[j].left
          /\ \A m \in 1..Len(aResult.blob) :
                /\ aResult.blob[m] \in 1..Len(encCalls)
                /\ encCalls[aResult.blob[m]].bytes
                /\ m > 1 => aResult.blob[m - 1] < aResult.blob[m]
          /\ Len(aResult.blob) = Cardinality({ j \in 1..Len(encCalls) : encCalls[j].bytes })
    /\ aPc = "raised" => (~aFile.decodable \/ ~lamejs)

C10_Witness ==
    /\ aPc = "returned"
    /\ aFile.numberOfChannels = 2
    /\ Len(encCalls) = 4
    /\ encCalls[3].left < 1152
    /\ encCalls[3].right = encCalls[3].left
    /\ aResult.blob = <<2, 4>>

\* the empty slice
C10_WitnessEmpty ==
    /\ aPc = "returned"
    /\ aLocals.leftLen = 0
    /\ encCalls = <<[op |-> "flush", from |-> 0, left |-> NoChannel,
                     right |-> NoChannel, bytes |-> TRUE]>>
    /\ aResult.kind = "ok"

-----------------------------------------------------------------------------
(* Properties of convertBuffer *)

\* C7: convertBuffer returns as many values as it got, each in
\* [-32768, 32767]: 32767 for a sample >= 1, -32768 for a sample <= -1,
\* sample * 32767 truncated toward zero for 0 <= sample < 1, sample * 32768
\* truncated toward zero for -1 < sample < 0; the mapping is non-decreasing.
C7_ConvertBuffer ==
    cPc = "done" =>
        /\ Len(cOut) = Len(cBuf)
        /\ \A j \in 1..Len(cBuf) :
              /\ cOut[j] \in -32768..32767
              /\ cBuf[j] >= SampleDen => cOut[j] = 32767
              /\ cBuf[j] <= -SampleDen => cOut[j] = -32768
              /\ cBuf[j] = 0 => cOut[j] = 0
              /\ (0 <= cBuf[j] /\ cBuf[j] < SampleDen) =>
                    /\ cOut[j] * SampleDen <= cBuf[j] * 32767
                    /\ cBuf[j] * 32767 < (cOut[j] + 1) * SampleDen
              /\ (-SampleDen < cBuf[j] /\ cBuf[j] < 0) =>
                    /\ (cOut[j] - 1) * SampleDen < cBuf[j] * 32768
                    /\ cBuf[j] * 32768 <= cOut[j] * SampleDen
        /\ \A j, l \in 1..Len(cBuf) : cBuf[j] <= cBuf[l] => cOut[j] <= cOut[l]

\* the samples 1.5 and -1/SampleDen
C7_Witness ==
    /\ cPc = "done"
    /\ Len(cBuf) = 2
    /\ cBuf[1] = 3 * HalfSteps
    /\ cOut[1] = 32767
    /\ cBuf[2] = -1
    /\ cOut[2] = -(32768 \div SampleDen)

-----------------------------------------------------------------------------
Init == AppInit /\ AudioIdle /\ ConvIdle

Next ==
    \/ HandleFileSelect
    \/ HandleDrop
    \/ SetPrefix
    \/ StartProcessing
    \/ ExtractResolved
    \/ ExtractRejected
    \/ PauseElapsedNext
    \/ PauseElapsedLast
    \/ ZipGenerated
    \/ ResetApp

Spec == Init /\ [][Next]_vars

\* the event loop runs every settled promise and every expired timer: the
\* resumptions of startProcessing are not postponed for ever
Resume ==
    \/ ExtractResolved
    \/ ExtractRejected
    \/ PauseElapsedNext
    \/ PauseElapsedLast
    \/ ZipGenerated

SpecLive == Init /\ [][Next]_vars /\ WF_vars(Resume)

InitAudio == AppInit /\ AudioIdle /\ ConvIdle

NextAudio ==
    \/ Call
    \/ DecodeRejected
    \/ DecodeResolved
    \/ CloseSettled
    \/ EncoderMissing
    \/ Encode

SpecAudio == InitAudio /\ [][NextAudio]_vars

InitConv == AppInit /\ AudioIdle /\ ConvInit

NextConv == Convert

SpecConv == InitConv /\ [][NextConv]_vars

=============================================================================
